---- MODULE Spec2Model ----
(***************************************************************************)
(* The two speech-to-text providers of src/gemini-stt.js,                  *)
(* GeminiSttProvider and WhisperOpenAICompatibleSttProvider, as one state  *)
(* machine.  The two classes share no state, so a behaviour is about one   *)
(* provider instance: Init chooses which.                                  *)
(*                                                                         *)
(* A JavaScript string is a sequence of tokens (<<>> is ''); a template    *)
(* literal is the concatenation of its pieces.  A JavaScript value is a    *)
(* record [t, v] tagged with its type.                                     *)
(***************************************************************************)
EXTENDS Integers, Sequences, FiniteSets, TLC

VARIABLES
    provider,   \* which class the instance is: "Gemini" or "Whisper"
    settings,   \* this.settings: [defined, fields]
    view,       \* the values of the four settings inputs of the page
    calls,      \* the processAudio calls in flight, by slot
    sent,       \* the request most recently handed to fetch
    done,       \* what the most recently finished processAudio call did
    uncaught    \* the exception that escaped the last settings handler

vars == <<provider, settings, view, calls, sent, done, uncaught>>

\* ------------------------------------------------------------------ bounds

\* processAudio calls that may be in flight together
MaxCalls == 2

Slots == 1..MaxCalls

\* ----------------------------------------------------------------- strings

Space == " "

RECURSIVE TrimStart(_)
TrimStart(s) ==
    IF s # <<>> /\ Head(s) = Space THEN TrimStart(Tail(s)) ELSE s

RECURSIVE TrimEnd(_)
TrimEnd(s) ==
    IF s # <<>> /\ s[Len(s)] = Space THEN TrimEnd(SubSeq(s, 1, Len(s) - 1)) ELSE s

\* String.prototype.trim
Trim(s) == TrimEnd(TrimStart(s))

\* baseUrl.replace(/\/$/, ''): one trailing slash removed
StripTrailingSlash(s) ==
    IF s # <<>> /\ s[Len(s)] = "/" THEN SubSeq(s, 1, Len(s) - 1) ELSE s

\* sub occurs in s as a contiguous run of tokens
Contains(s, sub) ==
    \E i \in 0..(Len(s) - Len(sub)) : SubSeq(s, i + 1, i + Len(sub)) = sub

\* ---------------------------------------------------------- JavaScript values

JUndefined == [t |-> "undefined", v |-> <<>>]
JNull == [t |-> "null", v |-> <<>>]
JStr(s) == [t |-> "str", v |-> s]
JNum(n) == [t |-> "num", v |-> n]
JArr(items) == [t |-> "arr", v |-> items]
JObj(f) == [t |-> "obj", v |-> f]

\* reading a property of x throws a TypeError
Nullish(x) == x.t \in {"undefined", "null"}

\* x.k for a value that is not nullish
Get(x, k) ==
    IF x.t = "obj" /\ k \in DOMAIN x.v THEN x.v[k] ELSE JUndefined

\* !!x
Truthy(x) ==
    CASE x.t \in {"undefined", "null"} -> FALSE
      [] x.t = "str" -> x.v # <<>>
      [] x.t = "num" -> x.v # 0
      [] OTHER -> TRUE

\* x.length > 0
HasLength(x) ==
    CASE x.t \in {"arr", "str"} -> Len(x.v) > 0
      [] x.t = "obj" -> LET l == Get(x, "length") IN l.t = "num" /\ l.v > 0
      [] OTHER -> FALSE

\* x[0] for a value that is not nullish
At0(x) ==
    CASE x.t = "arr" -> IF Len(x.v) > 0 THEN x.v[1] ELSE JUndefined
      [] x.t = "str" -> IF Len(x.v) > 0 THEN JStr(<<x.v[1]>>) ELSE JUndefined
      [] OTHER -> JUndefined

\* `${x}`
Template(x) ==
    CASE x.t = "str" -> x.v
      [] x.t = "num" -> <<ToString(x.v)>>
      [] x.t = "undefined" -> <<"undefined">>
      [] x.t = "null" -> <<"null">>
      [] x.t = "arr" -> <<"[array]">>
      [] OTHER -> <<"[object Object]">>

\* --------------------------------------------------------------- exceptions

\* a thrown value: cls is its class ("Event" is no Error and has no message)
Thrown(cls, msg) == [cls |-> cls, msg |-> msg]
NoErr == Thrown("none", <<>>)

TypeErrorUndefined == Thrown("TypeError", <<"Cannot read properties of undefined">>)
TypeErrorNull == Thrown("TypeError", <<"Cannot read properties of null">>)
FetchTypeError == Thrown("TypeError", <<"Failed to fetch">>)
BodyTypeError == Thrown("TypeError", <<"Failed to read the response body">>)
JsonSyntaxError == Thrown("SyntaxError", <<"Unexpected token in JSON">>)
ReaderErrorEvent == Thrown("Event", <<>>)

\* what a block of code did: returned a value or threw, and the toasts it raised
Returned(value, toasts) ==
    [kind |-> "returned", value |-> value, err |-> NoErr, toasts |-> toasts]
Raised(err, toasts) ==
    [kind |-> "raised", value |-> JUndefined, err |-> err, toasts |-> toasts]

\* ----------------------------------------------------------------- settings

Providers == {"Gemini", "Whisper"}

GeminiDefaultSettings ==
    [apiKey |-> <<>>,
     baseUrl |-> <<"https://generativelanguage.googleapis.com">>,
     modelName |-> <<"gemini-2.5-flash-preview-04-17">>,
     prompt |-> <<"You are a speech recognition assistant.">>]

WhisperDefaultSettings ==
    [apiKey |-> <<>>,
     endpoint |-> <<"https://api.openai.com/v1/audio/transcriptions">>,
     model |-> <<"whisper-1">>,
     language |-> <<>>]

defaultSettings(p) ==
    IF p = "Gemini" THEN GeminiDefaultSettings ELSE WhisperDefaultSettings

\* the names of the settings inputs of the page
Fields(p) == DOMAIN defaultSettings(p)

EndpointKey(p) == IF p = "Gemini" THEN "baseUrl" ELSE "endpoint"
ModelKey(p) == IF p = "Gemini" THEN "modelName" ELSE "model"

NoFields == [k \in {} |-> <<>>]
Unset == [defined |-> FALSE, fields |-> NoFields]
Set(f) == [defined |-> TRUE, fields |-> f]

\* { ...a, ...b }
Spread(a, b) ==
    [k \in (DOMAIN a) \cup (DOMAIN b) |-> IF k \in DOMAIN b THEN b[k] ELSE a[k]]

\* the value="..." attributes settingsHtml renders
settingsHtml(p, s) ==
    IF p = "Gemini"
    THEN [k \in Fields(p) |->
            IF s.defined /\ k \in DOMAIN s.fields THEN s.fields[k]
            ELSE IF k = "apiKey" THEN <<>> ELSE GeminiDefaultSettings[k]]
    ELSE [k \in Fields(p) |->
            IF s.defined /\ k \in DOMAIN s.fields THEN s.fields[k]
            ELSE IF k \in {"apiKey", "language"} THEN <<>> ELSE WhisperDefaultSettings[k]]

\* GeminiSttProvider.loadSettings: the merge
GeminiLoad(p) ==
    IF DOMAIN p # {} THEN Spread(GeminiDefaultSettings, p) ELSE GeminiDefaultSettings

\* WhisperOpenAICompatibleSttProvider.loadSettings: the merge
WhisperLoad(p) ==
    [k \in DOMAIN WhisperDefaultSettings |->
        IF k \in DOMAIN p THEN p[k] ELSE WhisperDefaultSettings[k]]

\* what the settings inputs of the page show after loadSettings
Shown(p, f) == [k \in Fields(p) |-> f[k]]

\* ------------------------------------------------------------------ network

\* an HTTP response's status line; statusText is '' over HTTP/2
Response(status, statusText) == [status |-> status, statusText |-> statusText]
NoResponse == Response(0, <<>>)

Responses ==
    {Response(200, <<"OK">>), Response(404, <<"Not Found">>), Response(500, <<>>)}

\* Response.ok
Ok(r) == r.status >= 200 /\ r.status <= 299

\* a response body: its text, whether JSON.parse accepts it, and the value parsed
\* (readable is FALSE when reading the body stream fails)
Body(text, parses, value) ==
    [readable |-> TRUE, text |-> text, parses |-> parses, value |-> value]
UnreadableBody ==
    [readable |-> FALSE, text |-> <<>>, parses |-> FALSE, value |-> JUndefined]
NoBody == Body(<<"-">>, FALSE, JUndefined)

Part(f) == JObj([parts |-> JArr(<<f>>)])
Candidate(content) == JObj([candidates |-> JArr(<<JObj([content |-> content])>>)])
ApiErrorValue(m) == JObj([error |-> JObj([message |-> JStr(m)])])

HtmlBody == Body(<<"<html>">>, FALSE, JUndefined)
NullBody == Body(<<"null">>, TRUE, JNull)
EmptyObjectBody == Body(<<"{}">>, TRUE, JObj(NoFields))
BadAudioBody == Body(<<"{error:{message:bad audio}}">>, TRUE, ApiErrorValue(<<"bad audio">>))

GeminiBodies ==
    {HtmlBody, NullBody, EmptyObjectBody, BadAudioBody,
     Body(<<"{candidates:[]}">>, TRUE, JObj([candidates |-> JArr(<<>>)])),
     Body(<<"{candidates:[{}]}">>, TRUE, JObj([candidates |-> JArr(<<JObj(NoFields)>>)])),
     Body(<<"{candidates:[null]}">>, TRUE, JObj([candidates |-> JArr(<<JNull>>)])),
     Body(<<"{candidates:[{content:{parts:[]}}]}">>, TRUE,
          Candidate(JObj([parts |-> JArr(<<>>)]))),
     Body(<<"{candidates:[{content:{parts:[{}]}}]}">>, TRUE,
          Candidate(Part(JObj(NoFields)))),
     Body(<<"{candidates:[{content:{parts:[{text:5}]}}]}">>, TRUE,
          Candidate(Part(JObj([text |-> JNum(5)])))),
     Body(<<"{candidates:[{content:{parts:[{text:''}]}}]}">>, TRUE,
          Candidate(Part(JObj([text |-> JStr(<<>>)])))),
     Body(<<"{candidates:[{content:{parts:[{text:' hello world '}]}}]}">>, TRUE,
          Candidate(Part(JObj([text |-> JStr(<<" ", "hello", " ", "world", " ">>)]))))}

WhisperBodies ==
    {HtmlBody, NullBody, EmptyObjectBody, BadAudioBody,
     Body(<<"{text:''}">>, TRUE, JObj([text |-> JStr(<<>>)])),
     Body(<<"{text:' hi '}">>, TRUE, JObj([text |-> JStr(<<" ", "hi", " ">>)])),
     Body(<<"{text:null}">>, TRUE, JObj([text |-> JNull])),
     Body(<<"{text:'hi',error:{message:'warn'}}">>, TRUE,
          JObj([text |-> JStr(<<"hi">>), error |-> JObj([message |-> JStr(<<"warn">>)])])),
     Body(<<"{error:{}}">>, TRUE, JObj([error |-> JObj(NoFields)])),
     Body(<<"'quota exceeded'">>, TRUE, JStr(<<"quota exceeded">>))}

Bodies(p) ==
    (IF p = "Gemini" THEN GeminiBodies ELSE WhisperBodies) \cup {UnreadableBody}

\* what fetch was given: the endpoint, the model and the credential it carries
Request(endpoint, model, credential, extra) ==
    [issued |-> TRUE, endpoint |-> endpoint, model |-> model,
     credential |-> credential, extra |-> extra]
NoRequest ==
    [issued |-> FALSE, endpoint |-> <<>>, model |-> <<>>, credential |-> <<>>,
     extra |-> <<>>]

\* requestUrl and requestBody of GeminiSttProvider.processAudio
GeminiRequest(f) ==
    Request(StripTrailingSlash(f.baseUrl), f.modelName, f.apiKey, f.prompt)

\* endpointUrl, headers and requestData of the Whisper provider's processAudio
WhisperRequest(f) ==
    Request(f.endpoint, f.model,
            IF f.apiKey # <<>> THEN f.apiKey ELSE <<"FALLBACK_API_KEY_IF_EMPTY">>,
            f.language)

\* ------------------------------------------- GeminiSttProvider.processAudio

Pass == [kind |-> "pass", value |-> JUndefined, err |-> NoErr, toasts |-> <<>>]

GeminiNoApiKey == <<"API Key is not set for Gemini STT.">>
GeminiNoBaseUrl == <<"Base URL is not set for Gemini STT.">>
GeminiNoModelName == <<"Model Name is not set for Gemini STT.">>
GeminiShapeMessage == <<"Failed to parse transcription from Gemini API response.">>
GeminiUnknownMessage == <<"An unknown error occurred with Gemini STT.">>

\* the three checks that precede the try block
GeminiValidate(f) ==
    IF f.apiKey = <<>> THEN Raised(Thrown("Error", GeminiNoApiKey), <<GeminiNoApiKey>>)
    ELSE IF f.baseUrl = <<>>
    THEN Raised(Thrown("Error", GeminiNoBaseUrl), <<GeminiNoBaseUrl>>)
    ELSE IF f.modelName = <<>>
    THEN Raised(Thrown("Error", GeminiNoModelName), <<GeminiNoModelName>>)
    ELSE Pass

\* errorText of the !response.ok branch: error.message of the body when it parses
\* and has one, else the body's text (the inner try swallows what JSON.parse or the
\* property read throws)
GeminiErrorText(body) ==
    IF body.parses /\ ~Nullish(body.value)
    THEN LET e == Get(body.value, "error") IN
         IF Truthy(e) /\ Truthy(Get(e, "message"))
         THEN Template(Get(e, "message"))
         ELSE body.text
    ELSE body.text

\* the !response.ok branch
GeminiNotOk(resp, body) ==
    IF ~body.readable THEN Raised(BodyTypeError, <<>>)
    ELSE LET head == <<"Gemini API Error:", ToString(resp.status)>> \o resp.statusText
             detail == GeminiErrorText(body)
         IN Raised(Thrown("Error", head \o <<". Details:">> \o detail),
                   <<head \o <<".">> \o detail>>)

GeminiShapeError == Raised(Thrown("Error", GeminiShapeMessage), <<GeminiShapeMessage>>)

\* the extraction of result.candidates[0].content.parts[0].text
GeminiExtract(result) ==
    IF Nullish(result) THEN Raised(TypeErrorNull, <<>>)
    ELSE LET candidates == Get(result, "candidates") IN
    IF ~(Truthy(candidates) /\ HasLength(candidates)) THEN GeminiShapeError
    ELSE LET c0 == At0(candidates) IN
    IF Nullish(c0) THEN Raised(TypeErrorNull, <<>>)
    ELSE LET content == Get(c0, "content") IN
    IF ~Truthy(content) THEN GeminiShapeError
    ELSE LET parts == Get(content, "parts") IN
    IF ~(Truthy(parts) /\ HasLength(parts)) THEN GeminiShapeError
    ELSE LET p0 == At0(parts) IN
    IF Nullish(p0) THEN Raised(TypeErrorNull, <<>>)
    ELSE LET text == Get(p0, "text") IN
    IF text.t = "str" THEN Returned(JStr(Trim(text.v)), <<>>) ELSE GeminiShapeError

\* the try block from the response on
GeminiTry(resp, body) ==
    IF ~Ok(resp) THEN GeminiNotOk(resp, body)
    ELSE IF ~body.readable THEN Raised(BodyTypeError, <<>>)
    ELSE IF ~body.parses THEN Raised(JsonSyntaxError, <<>>)
    ELSE GeminiExtract(body.value)

\* catch (error): one more toast, and the caught value thrown again
GeminiCatch(o) ==
    IF o.kind = "raised"
    THEN Raised(o.err,
                Append(o.toasts, IF o.err.msg # <<>> THEN o.err.msg ELSE GeminiUnknownMessage))
    ELSE o

\* ---------------------------- WhisperOpenAICompatibleSttProvider.processAudio

WhisperNoApiKeyToast == <<"API Key is not set for Whisper (OpenAI Compatible).">>
WhisperNoEndpointToast == <<"Endpoint URL is not set for Whisper (OpenAI Compatible).">>
WhisperNoModelToast == <<"Model is not set for Whisper (OpenAI Compatible).">>
WhisperNoApiKey == <<"API Key is not set.">>
WhisperNoEndpoint == <<"Endpoint URL is not set.">>
WhisperNoModel == <<"Model is not set.">>
WhisperNoDetails == <<"Could not retrieve error details.">>
WhisperNoText == <<"API Error: Transcription text not found in response.">>
WhisperUnknownMessage == <<"An unknown error occurred during STT processing.">>

\* the three checks that precede the try block
WhisperValidate(f) ==
    IF f.apiKey = <<>> THEN Raised(Thrown("Error", WhisperNoApiKey), <<WhisperNoApiKeyToast>>)
    ELSE IF f.endpoint = <<>>
    THEN Raised(Thrown("Error", WhisperNoEndpoint), <<WhisperNoEndpointToast>>)
    ELSE IF f.model = <<>>
    THEN Raised(Thrown("Error", WhisperNoModel), <<WhisperNoModelToast>>)
    ELSE Pass

\* the !apiResult.ok branch
WhisperNotOk(resp, body) ==
    LET errorDetails == IF body.readable THEN body.text ELSE WhisperNoDetails
        statusText == IF resp.statusText # <<>> THEN resp.statusText ELSE <<"Error">>
        errorMessage == <<"API request failed:", ToString(resp.status)>> \o statusText
                        \o <<". Details:">> \o errorDetails
    IN Raised(Thrown("Error", errorMessage), <<errorMessage>>)

\* apiErrorMessage of the result.text === undefined branch
WhisperApiErrorMessage(result) ==
    LET e == Get(result, "error") IN
    IF Truthy(e) /\ Truthy(Get(e, "message"))
    THEN <<"API Error:">> \o Template(Get(e, "message"))
    ELSE IF result.t = "str" THEN <<"API Error:">> \o result.v
    ELSE WhisperNoText

\* the reading of result.text
WhisperExtract(result) ==
    IF Nullish(result) THEN Raised(TypeErrorNull, <<>>)
    ELSE LET text == Get(result, "text") IN
    IF text.t = "undefined"
    THEN LET m == WhisperApiErrorMessage(result) IN Raised(Thrown("Error", m), <<m>>)
    ELSE Returned(text, <<>>)

\* the try block from the response on
WhisperTry(resp, body) ==
    IF ~Ok(resp) THEN WhisperNotOk(resp, body)
    ELSE IF ~body.readable THEN Raised(BodyTypeError, <<>>)
    ELSE IF ~body.parses THEN Raised(JsonSyntaxError, <<>>)
    ELSE WhisperExtract(body.value)

\* catch (error): the message normalised, one more toast, a new Error thrown
WhisperCatch(o) ==
    IF o.kind = "raised"
    THEN LET m == IF o.err.cls = "Event" THEN <<"[object Event]">> ELSE o.err.msg
             catchErrorMessage == IF m # <<>> THEN m ELSE WhisperUnknownMessage
         IN Raised(Thrown("Error", catchErrorMessage), Append(o.toasts, catchErrorMessage))
    ELSE o

\* ------------------------------------------------------------ the instance

\* what an input of the page can hold: '' or a value
Vals == {<<>>, <<"x">>}

\* the values the user can have left in the four inputs: at most one of them empty
ViewInputs(p) ==
    {v \in [Fields(p) -> Vals] : Cardinality({k \in Fields(p) : v[k] = <<>>}) <= 1}

\* the keys a persisted mapping can hold: none, some or all of the provider's own,
\* and one it does not recognize
PersistedDomains(p) ==
    {{}, {"apiKey"}, {"apiKey", EndpointKey(p)}, Fields(p),
     {"extra"}, {"apiKey", "extra"}, Fields(p) \cup {"extra"}}

\* the persisted mappings, each key holding a stored value (the endpoint's ends
\* with a slash)
PersistedMappings(p) ==
    {[k \in D |-> IF k = EndpointKey(p) THEN <<"s", "/">> ELSE <<"s">>] :
        D \in PersistedDomains(p)}

\* a slot: where its call stands, the requests it has issued, the response it got,
\* and whether a required setting was empty (or this.settings absent) when it began
Idle == [pc |-> "idle", fetches |-> 0, resp |-> NoResponse, missing |-> FALSE]
InFlight(pc, fetches, resp, missing) ==
    [pc |-> pc, fetches |-> fetches, resp |-> resp, missing |-> missing]

\* no call has finished yet
NoneDone ==
    [kind |-> "none", value |-> JUndefined, err |-> NoErr, toasts |-> <<>>,
     fetches |-> 0, resp |-> NoResponse, body |-> NoBody, missing |-> FALSE]

\* the caller has taken the outcome of every call that finished: a promise's
\* reactions run before the next event, timer or network callback
Settled == done.kind = "none"

\* the call in slot c ends with outcome o
Finish(c, o, resp, body, missing) ==
    /\ calls' = [calls EXCEPT ![c] = Idle]
    /\ done' = [kind |-> o.kind, value |-> o.value, err |-> o.err, toasts |-> o.toasts,
                fetches |-> calls[c].fetches, resp |-> resp, body |-> body,
                missing |-> missing]

Init ==
    /\ provider \in Providers
    /\ settings = Unset
    /\ view = settingsHtml(provider, Unset)
    /\ calls = [c \in Slots |-> Idle]
    /\ sent = NoRequest
    /\ done = NoneDone
    /\ uncaught = NoErr

\* loadSettings(p)
LoadSettings(p) ==
    /\ Settled
    /\ settings' = Set(IF provider = "Gemini" THEN GeminiLoad(p) ELSE WhisperLoad(p))
    /\ view' = Shown(provider, settings'.fields)
    /\ uncaught' = NoErr
    /\ UNCHANGED <<provider, calls, sent, done>>

\* the user leaves vals in the inputs and onSettingsChange runs
OnSettingsChange(vals) ==
    /\ Settled
    /\ view' = vals
    /\ IF provider = "Gemini"
       THEN /\ settings' = Set(Spread(IF settings.defined THEN settings.fields
                                      ELSE GeminiDefaultSettings, vals))
            /\ uncaught' = NoErr
       ELSE IF settings.defined
       THEN /\ settings' = Set(Spread(settings.fields, vals))
            /\ uncaught' = NoErr
       ELSE /\ uncaught' = TypeErrorUndefined
            /\ UNCHANGED settings
    /\ UNCHANGED <<provider, calls, sent, done>>

\* a required setting is empty, or there are no settings at all
RequiredEmpty(p, s) ==
    \/ ~s.defined
    \/ \E k \in {"apiKey", EndpointKey(p), ModelKey(p)} : s.fields[k] = <<>>

\* processAudio(audioBlob) up to its first await, of blobToBase64
GeminiProcessAudio(c) ==
    LET s == IF settings.defined THEN settings ELSE Set(GeminiDefaultSettings)
        v == GeminiValidate(s.fields)
        missing == RequiredEmpty(provider, settings)
    IN /\ settings' = s
       /\ IF v.kind = "raised"
          THEN Finish(c, v, NoResponse, NoBody, missing)
          ELSE /\ calls' = [calls EXCEPT ![c] = InFlight("encoding", 0, NoResponse, missing)]
               /\ UNCHANGED done
       /\ UNCHANGED sent

\* processAudio(audioBlob) up to its first await, of fetch
WhisperProcessAudio(c) ==
    LET missing == RequiredEmpty(provider, settings) IN
    /\ UNCHANGED settings
    /\ IF ~settings.defined
       THEN /\ Finish(c, Raised(TypeErrorUndefined, <<>>), NoResponse, NoBody, missing)
            /\ UNCHANGED sent
       ELSE LET v == WhisperValidate(settings.fields) IN
            IF v.kind = "raised"
            THEN /\ Finish(c, v, NoResponse, NoBody, missing)
                 /\ UNCHANGED sent
            ELSE /\ sent' = WhisperRequest(settings.fields)
                 /\ calls' = [calls EXCEPT ![c] = InFlight("fetching", 1, NoResponse, missing)]
                 /\ UNCHANGED done

ProcessAudio(c) ==
    /\ Settled
    /\ calls[c].pc = "idle"
    /\ IF provider = "Gemini" THEN GeminiProcessAudio(c) ELSE WhisperProcessAudio(c)
    /\ UNCHANGED <<provider, view, uncaught>>

\* blobToBase64 resolves: the request is built from this.settings and fetched
EncodeDone(c) ==
    /\ Settled
    /\ calls[c].pc = "encoding"
    /\ sent' = GeminiRequest(settings.fields)
    /\ calls' = [calls EXCEPT ![c] = InFlight("fetching", @.fetches + 1, NoResponse, @.missing)]
    /\ UNCHANGED <<provider, settings, view, done, uncaught>>

\* blobToBase64 rejects with the FileReader's error event
EncodeFail(c) ==
    /\ Settled
    /\ calls[c].pc = "encoding"
    /\ Finish(c, GeminiCatch(Raised(ReaderErrorEvent, <<>>)), NoResponse, NoBody,
              calls[c].missing)
    /\ UNCHANGED <<provider, settings, view, sent, uncaught>>

\* what the catch block does with outcome o of the try block
Catch(p, o) == IF p = "Gemini" THEN GeminiCatch(o) ELSE WhisperCatch(o)

\* what the try block does with response resp and its body
Try(p, resp, body) ==
    IF p = "Gemini" THEN GeminiTry(resp, body) ELSE WhisperTry(resp, body)

\* a processAudio that answers a failed fetch by fetching again
FetchRejectRetry(c) ==
    /\ Settled
    /\ calls[c].pc = "fetching"
    /\ calls[c].fetches < 2
    /\ calls' = [calls EXCEPT ![c] = InFlight("fetching", @.fetches + 1, NoResponse, @.missing)]
    /\ UNCHANGED <<provider, settings, view, sent, done, uncaught>>

\* fetch rejects: the request got no response
FetchReject(c) ==
    /\ Settled
    /\ calls[c].pc = "fetching"
    /\ Finish(c, Catch(provider, Raised(FetchTypeError, <<>>)), NoResponse, NoBody,
              calls[c].missing)
    /\ UNCHANGED <<provider, settings, view, sent, uncaught>>

\* fetch resolves with a response r; the call awaits its body
FetchResolve(c, r) ==
    /\ Settled
    /\ calls[c].pc = "fetching"
    /\ calls' = [calls EXCEPT ![c] = InFlight("reading", @.fetches, r, @.missing)]
    /\ UNCHANGED <<provider, settings, view, sent, done, uncaught>>

\* the body b of the response arrives (or fails to): the rest of processAudio
BodyDone(c, b) ==
    /\ Settled
    /\ calls[c].pc = "reading"
    /\ Finish(c, Catch(provider, Try(provider, calls[c].resp, b)), calls[c].resp, b,
              calls[c].missing)
    /\ UNCHANGED <<provider, settings, view, sent, uncaught>>

\* the promise of the call that finished settles: its caller takes the outcome
Settle ==
    /\ ~Settled
    /\ done' = NoneDone
    /\ UNCHANGED <<provider, settings, view, calls, sent, uncaught>>

Next ==
    \/ \E p \in PersistedMappings(provider) : LoadSettings(p)
    \/ \E vals \in ViewInputs(provider) : OnSettingsChange(vals)
    \/ \E c \in Slots : ProcessAudio(c)
    \/ \E c \in Slots : EncodeDone(c)
    \/ \E c \in Slots : EncodeFail(c)
    \/ \E c \in Slots : FetchReject(c)
    \/ \E c \in Slots, r \in Responses : FetchResolve(c, r)
    \/ \E c \in Slots, b \in Bodies(provider) : BodyDone(c, b)
    \/ Settle

Spec == Init /\ [][Next]_vars

\* ------------------------------------------------------------------- claims

\* a call has just finished
Finished == done.kind # "none"

\* the messages of the errors the validation of processAudio throws
ConfigurationMessages ==
    {GeminiNoApiKey, GeminiNoBaseUrl, GeminiNoModelName,
     WhisperNoApiKey, WhisperNoEndpoint, WhisperNoModel}

\* C1: a processAudio call made while a required setting is empty raises a
\* configuration error and issues no request.
C1_ConfigurationErrorBeforeAnyRequest ==
    (Finished /\ done.missing) =>
        /\ done.kind = "raised"
        /\ done.err.msg \in ConfigurationMessages
        /\ done.fetches = 0

\* C2: a processAudio call that fails reports the failure to toastr.error exactly
\* once.
C2_ReportedExactlyOnce ==
    done.kind = "raised" => Len(done.toasts) = 1

\* C3: the error a failed processAudio call raises is a plain Error whose message
\* is the message reported to toastr.error for that failure.
C3_RaisedMessageIsTheReportedOne ==
    (done.kind = "raised" /\ done.toasts # <<>>) =>
        /\ done.err.cls = "Error"
        /\ \A i \in 1..Len(done.toasts) : done.toasts[i] = done.err.msg

\* the settings the claim expects of loadSettings(p): the default keys, each with
\* p's value when p has the key and the default otherwise
ExpectedAfterLoad(p) ==
    [k \in Fields(provider) |->
        IF k \in DOMAIN p THEN p[k] ELSE defaultSettings(provider)[k]]

\* C4: loadSettings(p) does not raise and leaves in settings exactly the default
\* keys, each holding p's value or else the default; keys p holds that are not
\* recognized are not in settings afterwards.
C4_LoadSettingsKeepsExactlyTheDefaultKeys ==
    [][\A p \in PersistedMappings(provider) :
          LoadSettings(p) =>
              /\ uncaught' = NoErr
              /\ settings'.defined
              /\ settings'.fields = ExpectedAfterLoad(p)]_vars

\* the finished call got a response with a non-success status
GotNotOk == Finished /\ done.resp # NoResponse /\ ~Ok(done.resp)

\* the finished call got a success response whose body parsed as JSON
GotJson ==
    /\ Finished
    /\ done.resp # NoResponse
    /\ Ok(done.resp)
    /\ done.body.readable
    /\ done.body.parses

\* C5: when the request returns a non-success status the call raises, and the
\* message of the error contains the status code.
C5_StatusCodeInMessage ==
    GotNotOk =>
        /\ done.kind = "raised"
        /\ Contains(done.err.msg, <<ToString(done.resp.status)>>)

\* x is an object that has key k
HasKey(x, k) == x.t = "obj" /\ k \in DOMAIN x.v

\* C6: Whisper, success status: a body with a text field makes processAudio return
\* that value unchanged; a body without one makes it raise, with error.message in
\* the message when the body has one, else the body itself when it is a string,
\* else the generic message.
C6_WhisperTextOrApiError ==
    (provider = "Whisper" /\ GotJson) =>
        LET r == done.body.value IN
        IF HasKey(r, "text")
        THEN done.kind = "returned" /\ done.value = r.v.text
        ELSE /\ done.kind = "raised"
             /\ IF HasKey(r, "error") /\ HasKey(r.v.error, "message")
                THEN Contains(done.err.msg, Template(r.v.error.v.message))
                ELSE IF r.t = "str" THEN Contains(done.err.msg, r.v)
                ELSE done.err.msg = WhisperNoText

\* x is an array with a first element
HasFirst(x) == x.t = "arr" /\ Len(x.v) > 0

\* r has candidates[0].content.parts[0].text and it is a string
HasTranscript(r) ==
    /\ HasKey(r, "candidates")
    /\ HasFirst(r.v.candidates)
    /\ HasKey(r.v.candidates.v[1], "content")
    /\ HasKey(r.v.candidates.v[1].v.content, "parts")
    /\ HasFirst(r.v.candidates.v[1].v.content.v.parts)
    /\ HasKey(r.v.candidates.v[1].v.content.v.parts.v[1], "text")
    /\ r.v.candidates.v[1].v.content.v.parts.v[1].v.text.t = "str"

Transcript(r) == r.v.candidates.v[1].v.content.v.parts.v[1].v.text.v

\* t is s without its leading and trailing whitespace
IsTrimmed(t, s) ==
    /\ t = <<>> \/ (t[1] # Space /\ t[Len(t)] # Space)
    /\ \E i \in 0..Len(s) :
          /\ i + Len(t) <= Len(s)
          /\ \A j \in 1..Len(s) :
                IF j <= i \/ j > i + Len(t) THEN s[j] = Space ELSE s[j] = t[j - i]

\* C7: Gemini, success status: processAudio returns a transcript exactly when
\* candidates[0].content.parts[0].text is a string, and returns it trimmed; in
\* every other case it raises the response-shape error.
C7_GeminiTranscriptOrShapeError ==
    (provider = "Gemini" /\ GotJson) =>
        LET r == done.body.value IN
        IF HasTranscript(r)
        THEN /\ done.kind = "returned"
             /\ done.value.t = "str"
             /\ IsTrimmed(done.value.v, Transcript(r))
        ELSE /\ done.kind = "raised"
             /\ done.err.msg = GeminiShapeMessage

\* C8: whatever settings changes interleave with the calls, every request issued
\* carries a credential, an endpoint and a model that are not empty.
C8_RequestCarriesValidatedSettings ==
    sent.issued =>
        /\ sent.credential # <<>>
        /\ sent.endpoint # <<>>
        /\ sent.model # <<>>

\* C9: the settings object is there from creation on, so neither onSettingsChange
\* nor processAudio ever fails with an unreported error for want of it.
C9_NoUnreportedFailureForWantOfSettings ==
    /\ uncaught = NoErr
    /\ ~(done.kind = "raised" /\ done.toasts = <<>>)

\* C10: a processAudio call issues at most one request: one while it waits for
\* the response or its body, none before, and a finished call has issued at most
\* one, exactly one when it returned a transcript.
C10_AtMostOneRequestPerCall ==
    /\ \A c \in Slots :
          calls[c].fetches = IF calls[c].pc \in {"fetching", "reading"} THEN 1 ELSE 0
    /\ done.fetches <= 1
    /\ done.kind = "returned" => done.fetches = 1

\* a call failed after its one request while another call has its own in flight
C10_FailedAfterOneRequestBesideAnother ==
    /\ done.kind = "raised"
    /\ done.fetches = 1
    /\ \E c \in Slots : calls[c].pc = "fetching" /\ calls[c].fetches = 1

====
